---- MODULE Spec2Model ----
(***************************************************************************)
(* A model of sub2clash.py: the subscription pipeline                      *)
(*   fetch_subscription_text -> split_lines_keep_schemes ->                *)
(*   parse_lines_to_proxies (parse_ss / parse_vmess / parse_trojan /       *)
(*   parse_ssr) -> build_minimal_clash_yaml -> write_yaml_to_file          *)
(* and the two drivers run_once and main.                                  *)
(*                                                                         *)
(* Text is a TLA+ string; a character is a string of length one.  The      *)
(* functions of the program are operators that compute on the characters   *)
(* as the Python code does.  A Python value that may be absent or raise is *)
(* a record with a tag: [k |-> "some", ...], [k |-> "none"],               *)
(* [k |-> "raise", e |-> <exception class>].                               *)
(***************************************************************************)
EXTENDS Integers, Sequences, FiniteSets, TLC

(***************************************************************************)
(* Characters and strings (Python str methods used by the program)         *)
(***************************************************************************)

\* The printable ASCII characters in code order: 32 (space) to 95 (_), and
\* 97 (a) to 126 (~).  (Code 96, the backquote, cannot stand in a TLA+ string.)
PrintableLow ==
  " !\"#$%&'()*+,-./0123456789:;<=>?@ABCDEFGHIJKLMNOPQRSTUVWXYZ[\\]^_"

PrintableHigh == "abcdefghijklmnopqrstuvwxyz{|}~"

\* The whitespace that str.strip() and the regex class \s remove.
Whitespace == {" ", "\t", "\n", "\r", "\f"}

Digits == "0123456789"

\* The character of s at place i, or "" when s has no such place.
Ch(s, i) == IF i >= 1 /\ i <= Len(s) THEN SubSeq(s, i, i) ELSE ""

MinOf(S) == CHOOSE x \in S : \A y \in S : x <= y

MaxOf(S) == 0 - MinOf({0 - x : x \in S})

\* The least place of a set of places, or 0 when there is none; the greatest.
FirstOf(hits) == IF hits = {} THEN 0 ELSE MinOf(hits)

LastOf(hits) == IF hits = {} THEN 0 ELSE MaxOf(hits)

\* The places at or after from where sub occurs in s.
Places(s, sub, from) ==
  {i \in from..(Len(s) - Len(sub) + 1) : SubSeq(s, i, i + Len(sub) - 1) = sub}

\* str.find, 1-based: the first place sub occurs in s at or after from, or 0.
FindFrom(s, sub, from) == FirstOf(Places(s, sub, from))

Find(s, sub) == FindFrom(s, sub, 1)

\* str.rfind, 1-based: the last place sub occurs in s, or 0.
RFind(s, sub) == LastOf(Places(s, sub, 1))

\* sub in s
Contains(s, sub) == Places(s, sub, 1) # {}

\* s.startswith(p)
StartsWith(s, p) == Len(s) >= Len(p) /\ SubSeq(s, 1, Len(p)) = p

\* s[n:]
DropFirst(s, n) == SubSeq(s, n + 1, Len(s))

\* s cut in two around the n characters at place i; s alone when i is 0.
CutAt(s, i, n) ==
  IF i = 0 THEN <<s>> ELSE <<SubSeq(s, 1, i - 1), SubSeq(s, i + n, Len(s))>>

\* s.split(sep, 1): one or two parts.
Split1(s, sep) == CutAt(s, Find(s, sep), Len(sep))

\* s.rsplit(sep, 1): one or two parts.
RSplit1(s, sep) == CutAt(s, RFind(s, sep), Len(sep))

PartitionAt(s, sep, i) ==
  IF i = 0 THEN <<s, "", "">>
  ELSE <<SubSeq(s, 1, i - 1), sep, SubSeq(s, i + Len(sep), Len(s))>>

\* s.partition(sep): <<before, sep or "", after>>.
Partition(s, sep) == PartitionAt(s, sep, Find(s, sep))

\* s.split(sep, n): at most n splits, empty parts kept; i is the first place
\* of sep in s.
RECURSIVE SplitN(_, _, _)
RECURSIVE SplitNAt(_, _, _, _)
SplitNAt(s, sep, n, i) ==
  IF n = 0 \/ i = 0 THEN <<s>>
  ELSE <<SubSeq(s, 1, i - 1)>> \o SplitN(SubSeq(s, i + Len(sep), Len(s)), sep, n - 1)

SplitN(s, sep, n) == SplitNAt(s, sep, n, Find(s, sep))

\* s.split(sep): every part (a text of n characters has at most n splits).
SplitAll(s, sep) == SplitN(s, sep, Len(s))

\* s.count(sub): the occurrences that do not overlap; i is the first one.
RECURSIVE Count(_, _)
RECURSIVE CountAt(_, _, _)
CountAt(s, sub, i) ==
  IF i = 0 THEN 0 ELSE 1 + Count(SubSeq(s, i + Len(sub), Len(s)), sub)

Count(s, sub) == CountAt(s, sub, Find(s, sub))

\* s between the first and the last of the places keep.
Trim(s, keep) == IF keep = {} THEN "" ELSE SubSeq(s, MinOf(keep), MaxOf(keep))

\* s.strip()
Strip(s) == Trim(s, {i \in 1..Len(s) : Ch(s, i) \notin Whitespace})

\* F(lo) \o ... \o F(hi), by halves, so that the evaluation nests only as
\* deep as the logarithm of the length.
RECURSIVE ConcatRange(_, _, _)
ConcatRange(F(_), lo, hi) ==
  IF lo > hi THEN ""
  ELSE IF lo = hi THEN F(lo)
  ELSE ConcatRange(F, lo, (lo + hi) \div 2) \o ConcatRange(F, ((lo + hi) \div 2) + 1, hi)

\* F applied to each character of s.
MapChars(s, F(_)) ==
  LET At(i) == F(Ch(s, i)) IN ConcatRange(At, 1, Len(s))

\* The characters of s that satisfy Keep, in order.
FilterChars(s, Keep(_)) ==
  LET At(i) == IF Keep(Ch(s, i)) THEN Ch(s, i) ELSE "" IN ConcatRange(At, 1, Len(s))

IsDigit(c) == c # "" /\ Contains(Digits, c)

IsSpace(c) == c \in Whitespace

NotSpace(c) == c \notin Whitespace

\* re.sub(r"\s+", "", s)
RemoveWhitespace(s) == FilterChars(s, NotSpace)

\* re.sub(r"[^0-9]", "", s)
KeepDigits(s) == FilterChars(s, IsDigit)

\* [p for p in re.split(r"\s+", s) if p]: t is s stripped and spaces the
\* places of its whitespace.
RECURSIVE SplitWhitespace(_)
RECURSIVE SplitAtSpace(_, _)
SplitAtSpace(t, spaces) ==
  IF t = "" THEN <<>>
  ELSE IF spaces = {} THEN <<t>>
  ELSE <<SubSeq(t, 1, MinOf(spaces) - 1)>>
         \o SplitWhitespace(SubSeq(t, MinOf(spaces) + 1, Len(t)))

SplitStripped(t) == SplitAtSpace(t, {i \in 1..Len(t) : Ch(t, i) \in Whitespace})

SplitWhitespace(s) == SplitStripped(Strip(s))

\* s.lower() on ASCII letters.
Upper == "ABCDEFGHIJKLMNOPQRSTUVWXYZ"

Lower == "abcdefghijklmnopqrstuvwxyz"

LowerChar(c) == IF Contains(Upper, c) THEN Ch(Lower, Find(Upper, c)) ELSE c

ToLower(s) == MapChars(s, LowerChar)

\* ord(c) for the printable ASCII characters and \t \n \f \r.
Ord(c) ==
  CASE c = "\t" -> 9
    [] c = "\n" -> 10
    [] c = "\f" -> 12
    [] c = "\r" -> 13
    [] Contains(PrintableLow, c) -> 31 + Find(PrintableLow, c)
    [] OTHER    -> 96 + Find(PrintableHigh, c)

\* bytes.decode("utf-8", errors="ignore") of one byte: an ASCII byte is its
\* character and a byte that starts no valid sequence is dropped.  (Control
\* characters other than \t \n \f \r and multi-byte sequences have no TLA+
\* string; the inputs of the model decode to printable ASCII.)
Chr(b) ==
  CASE b = 9  -> "\t"
    [] b = 10 -> "\n"
    [] b = 12 -> "\f"
    [] b = 13 -> "\r"
    [] b >= 32 /\ b <= 95  -> Ch(PrintableLow, b - 31)
    [] b >= 97 /\ b <= 126 -> Ch(PrintableHigh, b - 96)
    [] OTHER  -> ""

BytesToText(bytes) ==
  LET At(i) == Chr(bytes[i]) IN ConcatRange(At, 1, Len(bytes))

(***************************************************************************)
(* Forgiving Base64 recoder: b64decode_to_text and the library decoder     *)
(* base64.b64decode / binascii.a2b_base64 (non-strict) under it            *)
(***************************************************************************)

\* The standard Base64 alphabet; a character's value is its place minus one.
B64Alphabet == "ABCDEFGHIJKLMNOPQRSTUVWXYZabcdefghijklmnopqrstuvwxyz0123456789+/"

\* bytes.translate of urlsafe_b64decode: "-" becomes "+" and "_" becomes "/".
UrlsafeChar(c) == CASE c = "-" -> "+" [] c = "_" -> "/" [] OTHER -> c

UrlsafeTranslate(s) == MapChars(s, UrlsafeChar)

\* binascii.a2b_base64 in non-strict mode, one character: quad is the place
\* in the current group of four, left the bits carried over, pads the "="
\* seen in a row, out the bytes so far.  A character outside the alphabet is
\* skipped; "=" completing a group ends the input (done).
B64Value(c) == Find(B64Alphabet, c) - 1

A2bStep(st, c, v) ==
  IF st.done THEN st
  ELSE IF c = "=" THEN
    IF st.quad >= 2 /\ st.quad + st.pads + 1 >= 4 THEN [st EXCEPT !.done = TRUE]
    ELSE IF st.quad >= 2 THEN [st EXCEPT !.pads = @ + 1]
    ELSE st
  ELSE IF v < 0 THEN st
  ELSE CASE st.quad = 0 -> [st EXCEPT !.quad = 1, !.left = v, !.pads = 0]
         [] st.quad = 1 -> [st EXCEPT !.quad = 2, !.left = v % 16, !.pads = 0,
                                      !.out = Append(@, st.left * 4 + (v \div 16))]
         [] st.quad = 2 -> [st EXCEPT !.quad = 3, !.left = v % 4, !.pads = 0,
                                      !.out = Append(@, st.left * 16 + (v \div 4))]
         [] OTHER       -> [st EXCEPT !.quad = 0, !.left = 0, !.pads = 0,
                                      !.out = Append(@, st.left * 64 + v)]

\* The decoder's loop over the characters s[lo..hi] from state st, by halves;
\* nothing after the end of the input (done) is read.
RECURSIVE A2bRun(_, _, _, _)
RECURSIVE A2bRest(_, _, _, _)
A2bRun(st, s, lo, hi) ==
  IF lo > hi THEN st
  ELSE IF lo = hi THEN A2bStep(st, Ch(s, lo), B64Value(Ch(s, lo)))
  ELSE A2bRest(A2bRun(st, s, lo, (lo + hi) \div 2), s, ((lo + hi) \div 2) + 1, hi)

A2bRest(half, s, lo, hi) == IF half.done THEN half ELSE A2bRun(half, s, lo, hi)

\* The decoder's result: the bytes, or [ok |-> FALSE] for binascii.Error (data
\* left in an open group when the input ends).
A2bResult(end) == [ok |-> end.done \/ end.quad = 0, bytes |-> end.out]

\* base64.b64decode(s)
StdB64Decode(s) ==
  A2bResult(A2bRun([quad |-> 0, left |-> 0, pads |-> 0, out |-> <<>>, done |-> FALSE],
                   s, 1, Len(s)))

\* base64.urlsafe_b64decode(s)
UrlsafeB64Decode(s) == StdB64Decode(UrlsafeTranslate(s))

\* "=" * n
RECURSIVE Pad(_)
Pad(n) == IF n = 0 THEN "" ELSE "=" \o Pad(n - 1)

\* data + "=" * ((4 - len(data) % 4) % 4)
PadToFour(data) == data \o Pad((4 - (Len(data) % 4)) % 4)

\* raw.decode("utf-8", errors="ignore") of a decoder's result; binascii.Error
\* when the decoder raised.
DecodedText(result) ==
  IF result.ok THEN [k |-> "some", v |-> BytesToText(result.bytes)]
  ELSE [k |-> "raise", e |-> "binascii.Error"]

\* try: urlsafe_b64decode(padded)  except Exception: b64decode(padded).  The
\* second decoder is called in the except clause with no handler of its own,
\* so its binascii.Error leaves the function.
DecodeEither(first, padded) ==
  IF first.ok THEN DecodedText(first) ELSE DecodedText(StdB64Decode(padded))

DecodePadded(padded) == DecodeEither(UrlsafeB64Decode(padded), padded)

\* b64decode_to_text: whitespace removed, padded to a multiple of four, the
\* URL-safe decoder tried first and the standard one second.
b64decode_to_text(data) == DecodePadded(PadToFour(RemoveWhitespace(data)))

(***************************************************************************)
(* URL helpers: percent_decode, parse_name_from_fragment, parse_query      *)
(***************************************************************************)

HexDigits == "0123456789ABCDEF"

HexLower == "0123456789abcdef"

\* The value of a hexadecimal digit, or -1.
HexVal(c) ==
  IF c = "" THEN 0 - 1
  ELSE IF Contains(HexDigits, c) THEN Find(HexDigits, c) - 1
  ELSE IF Contains(HexLower, c) THEN Find(HexLower, c) - 1
  ELSE 0 - 1

\* urllib.parse.unquote: "%XX" with two hexadecimal digits is the byte XX,
\* any other "%" stays as it is.
percent_decode(s) ==
  LET Escape(i) == Ch(s, i) = "%" /\ HexVal(Ch(s, i + 1)) >= 0 /\ HexVal(Ch(s, i + 2)) >= 0
      At(i)     == IF Escape(i) THEN Chr(HexVal(Ch(s, i + 1)) * 16 + HexVal(Ch(s, i + 2)))
                   ELSE IF Escape(i - 1) \/ Escape(i - 2) THEN ""
                   ELSE Ch(s, i)
  IN  ConcatRange(At, 1, Len(s))

\* return name or None
NameOrNone(name) == IF name = "" THEN [k |-> "none"] ELSE [k |-> "some", v |-> name]

\* parse_name_from_fragment: the decoded text after the first "#", or None
\* when there is no "#" or nothing after it.
parse_name_from_fragment(url) ==
  IF Contains(url, "#") THEN NameOrNone(percent_decode(Split1(url, "#")[2]))
  ELSE [k |-> "none"]

SecondOrEmpty(parts) == IF Len(parts) = 2 THEN parts[2] ELSE ""

\* urlparse(url).query: the fragment is cut at the first "#", then the query
\* is what follows the first "?".  (urlparse also rejects a malformed
\* bracketed host; the inputs of the model hold no "[" or "]".)
UrlQuery(url) == SecondOrEmpty(Split1(Split1(url, "#")[1], "?"))

\* "+" becomes " " (parse_qs does this before unquoting).
PlusChar(c) == IF c = "+" THEN " " ELSE c

PlusToSpace(s) == MapChars(s, PlusChar)

\* parse_qs then v[0]: the pairs "k=v" between "&", a pair with no "=" or an
\* empty value dropped, the first value of each key kept.  The result is a
\* sequence of <<key, value>> with distinct keys.
RECURSIVE QueryPairs(_, _)
RECURSIVE QueryPair(_, _, _)
RECURSIVE QueryKey(_, _, _, _)
QueryPairs(fields, seen) ==
  IF fields = <<>> THEN <<>>
  ELSE QueryPair(Split1(Head(fields), "="), Tail(fields), seen)

QueryPair(nv, rest, seen) ==
  IF Len(nv) = 2 /\ nv[2] # ""
  THEN QueryKey(percent_decode(PlusToSpace(nv[1])), nv[2], rest, seen)
  ELSE QueryPairs(rest, seen)

QueryKey(key, value, rest, seen) ==
  IF key \notin seen
  THEN <<<<key, percent_decode(PlusToSpace(value))>>>> \o QueryPairs(rest, seen \cup {key})
  ELSE QueryPairs(rest, seen)

QueryFields(q) == IF q = "" THEN <<>> ELSE QueryPairs(SplitAll(q, "&"), {})

parse_query(url) == QueryFields(UrlQuery(url))

\* The value of the pair at place i, or "" when i is 0.
PairAt(pairs, i) == IF i = 0 THEN "" ELSE pairs[i][2]

\* dict.get(key) on the result of parse_query: "" stands for None (no value
\* of a parsed query is empty, and every use is "get(k) or ...").
QueryGet(query, key) == PairAt(query, FirstOf({i \in 1..Len(query) : query[i][1] = key}))

(***************************************************************************)
(* int(): Python's conversion of text to an integer                        *)
(***************************************************************************)

\* The number a run of digits writes, after the digits that gave acc.
RECURSIVE DigitsValue(_, _)
DigitsValue(s, acc) ==
  IF s = "" THEN acc
  ELSE DigitsValue(DropFirst(s, 1), acc * 10 + (Find(Digits, Ch(s, 1)) - 1))

\* Digits with single underscores between them, as int() accepts.
IsIntBody(s) ==
  /\ s # ""
  /\ \A i \in 1..Len(s) :
        \/ IsDigit(Ch(s, i))
        \/ Ch(s, i) = "_" /\ IsDigit(Ch(s, i - 1)) /\ IsDigit(Ch(s, i + 1))

NotUnderscore(c) == c # "_"

\* The digits after the sign.
PyIntBody(body, negative) ==
  IF IsIntBody(body)
  THEN [k |-> "some",
        v |-> IF negative THEN 0 - DigitsValue(FilterChars(body, NotUnderscore), 0)
              ELSE DigitsValue(FilterChars(body, NotUnderscore), 0)]
  ELSE [k |-> "raise", e |-> "ValueError"]

PyIntStripped(t) ==
  IF t # "" /\ Ch(t, 1) \in {"+", "-"} THEN PyIntBody(DropFirst(t, 1), Ch(t, 1) = "-")
  ELSE PyIntBody(t, FALSE)

\* int(s): surrounding whitespace and one sign allowed; anything else is a
\* ValueError.
PyInt(s) == PyIntStripped(Strip(s))

(***************************************************************************)
(* json.loads, for the JSON the vmess links carry.  A JSON value is tagged *)
(* with its Python type: [t |-> "str" | "num" | "bool", v |-> ...],        *)
(* [t |-> "null"], [t |-> "list", v |-> <<values>>],                       *)
(* [t |-> "obj", v |-> <<<<key, value>>, ...>>].  Integers, strings        *)
(* without escapes, literals, arrays and objects are read; a float or an   *)
(* escape is outside the inputs of the model and is reported malformed.    *)
(***************************************************************************)

JsonNull == [t |-> "null"]

JsonStr(x) == [t |-> "str", v |-> x]

JsonNum(n) == [t |-> "num", v |-> n]

JsonFail == [ok |-> FALSE]

JsonWhitespace == {" ", "\t", "\n", "\r"}

\* The least of a set of places, or other when there is none.
FirstOr(hits, other) == IF hits = {} THEN other ELSE MinOf(hits)

\* The first place at or after i that holds no JSON whitespace.
SkipWs(s, i) == FirstOr({j \in i..Len(s) : Ch(s, j) \notin JsonWhitespace}, Len(s) + 1)

StartsWithAt(s, i, p) == i + Len(p) - 1 <= Len(s) /\ SubSeq(s, i, i + Len(p) - 1) = p

\* The place after the run of digits that starts at i.
DigitsEnd(s, i) == FirstOr({j \in i..Len(s) : ~IsDigit(Ch(s, j))}, Len(s) + 1)

\* A string between the quotes at i and j.
JsonStringBody(body, j) ==
  IF Contains(body, "\\") \/ \E c \in {"\t", "\n", "\r"} : Contains(body, c)
  THEN JsonFail
  ELSE [ok |-> TRUE, v |-> JsonStr(body), next |-> j + 1]

JsonStringTo(s, i, j) == IF j = 0 THEN JsonFail ELSE JsonStringBody(SubSeq(s, i + 1, j - 1), j)

\* A string: from the quote at i to the next quote.
JsonString(s, i) == JsonStringTo(s, i, FindFrom(s, "\"", i + 1))

\* The digits s[first..end-1] of an integer: "0", or a run that starts with
\* no "0"; a fraction or an exponent after them is not read.
JsonNumberTo(s, neg, first, end) ==
  IF \/ end = first
     \/ (end - first > 1 /\ Ch(s, first) = "0")
     \/ Ch(s, end) \in {".", "e", "E"}
  THEN JsonFail
  ELSE [ok |-> TRUE, next |-> end,
        v  |-> JsonNum(IF neg THEN 0 - DigitsValue(SubSeq(s, first, end - 1), 0)
                       ELSE DigitsValue(SubSeq(s, first, end - 1), 0))]

JsonDigits(s, neg, first) == JsonNumberTo(s, neg, first, DigitsEnd(s, first))

\* An integer: "-"? then the digits.
JsonNumber(s, i) == JsonDigits(s, Ch(s, i) = "-", IF Ch(s, i) = "-" THEN i + 1 ELSE i)

RECURSIVE JsonValue(_, _)
RECURSIVE JsonValueAt(_, _)
RECURSIVE JsonObject(_, _)
RECURSIVE JsonMembers(_, _, _)
RECURSIVE JsonMemberKey(_, _, _)
RECURSIVE JsonMemberColon(_, _, _)
RECURSIVE JsonMemberValue(_, _, _, _)
RECURSIVE JsonMemberNext(_, _, _)
RECURSIVE JsonArray(_, _)
RECURSIVE JsonElements(_, _, _)
RECURSIVE JsonElementValue(_, _, _)
RECURSIVE JsonElementNext(_, _, _)

\* The value that starts at the first place at or after i0 that is not
\* whitespace.
JsonValue(s, i0) == JsonValueAt(s, SkipWs(s, i0))

JsonValueAt(s, i) ==
  CASE i > Len(s) -> JsonFail
    [] Ch(s, i) = "\"" -> JsonString(s, i)
    [] Ch(s, i) = "{"  -> JsonObject(s, SkipWs(s, i + 1))
    [] Ch(s, i) = "["  -> JsonArray(s, SkipWs(s, i + 1))
    [] StartsWithAt(s, i, "null")  -> [ok |-> TRUE, v |-> JsonNull, next |-> i + 4]
    [] StartsWithAt(s, i, "true")  ->
         [ok |-> TRUE, v |-> [t |-> "bool", v |-> TRUE], next |-> i + 4]
    [] StartsWithAt(s, i, "false") ->
         [ok |-> TRUE, v |-> [t |-> "bool", v |-> FALSE], next |-> i + 5]
    [] OTHER -> JsonNumber(s, i)

\* An object whose first token after "{" is at j.
JsonObject(s, j) ==
  IF Ch(s, j) = "}" THEN [ok |-> TRUE, v |-> [t |-> "obj", v |-> <<>>], next |-> j + 1]
  ELSE JsonMembers(s, j, <<>>)

\* The members of an object from i0 on: "key" : value, then "," or "}".
JsonMembers(s, i0, acc) == JsonMemberKey(s, SkipWs(s, i0), acc)

JsonMemberKey(s, i, acc) ==
  IF Ch(s, i) = "\"" THEN JsonMemberColon(s, JsonString(s, i), acc) ELSE JsonFail

JsonMemberColon(s, key, acc) ==
  IF key.ok /\ Ch(s, SkipWs(s, key.next)) = ":"
  THEN JsonMemberValue(s, key.v.v, JsonValue(s, SkipWs(s, key.next) + 1), acc)
  ELSE JsonFail

JsonMemberValue(s, name, val, acc) ==
  IF val.ok THEN JsonMemberNext(s, SkipWs(s, val.next), Append(acc, <<name, val.v>>))
  ELSE JsonFail

JsonMemberNext(s, j, all) ==
  IF Ch(s, j) = "," THEN JsonMembers(s, j + 1, all)
  ELSE IF Ch(s, j) = "}" THEN [ok |-> TRUE, v |-> [t |-> "obj", v |-> all], next |-> j + 1]
  ELSE JsonFail

\* An array whose first token after "[" is at j.
JsonArray(s, j) ==
  IF Ch(s, j) = "]" THEN [ok |-> TRUE, v |-> [t |-> "list", v |-> <<>>], next |-> j + 1]
  ELSE JsonElements(s, j, <<>>)

\* The elements of an array from i0 on: value, then "," or "]".
JsonElements(s, i0, acc) == JsonElementValue(s, JsonValue(s, i0), acc)

JsonElementValue(s, val, acc) ==
  IF val.ok THEN JsonElementNext(s, SkipWs(s, val.next), Append(acc, val.v)) ELSE JsonFail

JsonElementNext(s, j, all) ==
  IF Ch(s, j) = "," THEN JsonElements(s, j + 1, all)
  ELSE IF Ch(s, j) = "]" THEN [ok |-> TRUE, v |-> [t |-> "list", v |-> all], next |-> j + 1]
  ELSE JsonFail

\* One value and nothing but whitespace after it.
JsonWhole(s, val) ==
  IF val.ok /\ SkipWs(s, val.next) > Len(s) THEN [ok |-> TRUE, v |-> val.v] ELSE JsonFail

\* json.loads(s); [ok |-> FALSE] stands for json.JSONDecodeError.
json_loads(s) == JsonWhole(s, JsonValue(s, 1))

\* The value of the member at place i, or None when i is 0.
MemberAt(obj, i) == IF i = 0 THEN JsonNull ELSE obj.v[i][2]

\* dict.get(key): the last member with that key, or None.
JsonGet(obj, key) == MemberAt(obj, LastOf({i \in 1..Len(obj.v) : obj.v[i][1] = key}))

\* bool(v)
Truthy(x) ==
  CASE x.t = "null" -> FALSE
    [] x.t = "str"  -> x.v # ""
    [] x.t = "num"  -> x.v # 0
    [] x.t = "bool" -> x.v
    [] OTHER        -> Len(x.v) > 0

\* a or b
PyOr(a, b) == IF Truthy(a) THEN a ELSE b

\* The decimal text of a natural number.
RECURSIVE NatText(_)
NatText(n) == IF n < 10 THEN Ch(Digits, n + 1) ELSE NatText(n \div 10) \o Ch(Digits, (n % 10) + 1)

\* str(v): a string is itself, a number its decimal text; the text of any
\* other value is no integer literal ("True", "[...]", "{...}").
PyStr(x) ==
  CASE x.t = "str"  -> x.v
    [] x.t = "num"  -> IF x.v < 0 THEN "-" \o NatText(0 - x.v) ELSE NatText(x.v)
    [] x.t = "bool" -> IF x.v THEN "True" ELSE "False"
    [] x.t = "null" -> "None"
    [] x.t = "list" -> "[...]"
    [] OTHER        -> "{...}"

\* The Python value itself, as the descriptor holds it: text, number or
\* boolean bare, a list as a sequence; None and an object stay tagged.
RECURSIVE Untag(_)
Untag(x) ==
  CASE x.t \in {"str", "num", "bool"} -> x.v
    [] x.t = "list" -> [i \in 1..Len(x.v) |-> Untag(x.v[i])]
    [] OTHER -> x

(***************************************************************************)
(* Scheme parsers.  Each returns Some(descriptor), None, or Raise(e) when  *)
(* an exception leaves the parser.  A descriptor is the Python dict as a   *)
(* function from its keys.                                                 *)
(***************************************************************************)

None == [k |-> "none"]

Some(x) == [k |-> "some", v |-> x]

Raise(x) == [k |-> "raise", e |-> x]

\* opt or default, for an optional text
OrDefault(opt, default) == IF opt.k = "some" THEN opt.v ELSE default

\* a or b, for texts ("" is falsy and also stands for a missing query key)
TextOr(a, b) == IF a # "" THEN a ELSE b

\* d[key] = val
With(d, key, val) == (key :> val) @@ d


\* The descriptor parse_ss returns, with the plugin when the query names one.
SsProxy(name, method, password, host, port, plugin) ==
  Some(IF plugin # ""
       THEN With([name |-> name, type |-> "ss", server |-> host, port |-> port,
                  cipher |-> method, password |-> password], "plugin", plugin)
       ELSE [name |-> name, type |-> "ss", server |-> host, port |-> port,
             cipher |-> method, password |-> password])

\* port = int(re.sub(r"[^0-9]", "", port_str)); a ValueError is caught.
SsPort(url, mp, host, port) ==
  IF port.k # "some" THEN None
  ELSE SsProxy(OrDefault(parse_name_from_fragment(url), "SS"), mp[1], mp[2], host, port.v,
               QueryGet(parse_query(url), "plugin"))

\* host, port_str = server.rsplit(":", 1)
SsServer(url, mp, hp) == SsPort(url, mp, hp[1], PyInt(KeepDigits(hp[2])))

\* method, password = userinfo.split(":", 1): a userinfo with no ":" raises
\* ValueError, which is caught.
SsUserinfo(url, mp, server) ==
  IF Len(mp) # 2 THEN None
  ELSE IF ~Contains(server, ":") THEN None
  ELSE SsServer(url, mp, RSplit1(server, ":"))

\* userinfo, server = candidate2.split("@", 1)
SsCandidate2(url, candidate2) ==
  IF ~Contains(candidate2, "@") THEN None
  ELSE SsUserinfo(url, Split1(Split1(candidate2, "@")[1], ":"), Split1(candidate2, "@")[2])

\* The decoder's error is caught.
SsDecoded(url, decoded) ==
  IF decoded.k # "some" THEN None ELSE SsCandidate2(url, decoded.v)

\* The body is decoded only when it holds no "@".
SsCandidate(url, candidate) ==
  IF StartsWith(candidate, "-") THEN None
  ELSE IF ~Contains(candidate, "@")
       THEN SsDecoded(url, b64decode_to_text(Split1(candidate, "?")[1]))
       ELSE SsCandidate2(url, candidate)

\* parse_ss: ss://method:password@host:port, or the same text Base64-encoded
\* when the body holds no "@".  Only the fragment is cut off the body, so a
\* query stays in the text the port is read from.
parse_ss(url) == SsCandidate(url, Split1(DropFirst(url, Len("ss://")), "#")[1])

\* path.strip("/")
StripSlash(s) == Trim(s, {i \in 1..Len(s) : Ch(s, i) # "/"})

\* The vmess descriptor once add, port and id are known to be present.
VmessProxy(data, port, aid) ==
  LET Get(key) == JsonGet(data, key)
      name     == PyOr(Get("ps"), JsonStr("VMess"))
      net      == PyOr(Get("net"), JsonStr("tcp"))
      tls      == PyOr(Get("tls"), JsonStr(""))
      tls_flag == ToLower(tls.v) \in {"tls", "reality"}
      sni      == PyOr(PyOr(Get("sni"), Get("peer")), JsonNull)
      host     == PyOr(PyOr(Get("host"), Get("sni")), JsonNull)
      path     == PyOr(Get("path"), JsonStr("/"))
      alpn     == Get("alpn")
      p0       == [name |-> Untag(name), type |-> "vmess", server |-> Untag(Get("add")),
                   port |-> port, uuid |-> Untag(Get("id")), alterId |-> aid,
                   cipher |-> "auto"]
      p1       == IF tls_flag THEN With(p0, "tls", TRUE) ELSE p0
      p2       == IF Truthy(sni) THEN With(p1, "servername", Untag(sni)) ELSE p1
      p3       == CASE Truthy(alpn) /\ alpn.t = "str"  -> With(p2, "alpn", <<alpn.v>>)
                    [] Truthy(alpn) /\ alpn.t = "list" -> With(p2, "alpn", Untag(alpn))
                    [] OTHER -> p2
      ws_path  == "path" :> Untag(path)
      ws_opts  == IF Truthy(host)
                  THEN With(ws_path, "headers", "Host" :> Untag(host))
                  ELSE ws_path
  IN  IF net.t # "str" THEN Raise("AttributeError")
      ELSE IF ToLower(net.v) = "ws"
           THEN Some(With(With(p3, "network", "ws"), "ws-opts", ws_opts))
      ELSE IF ToLower(net.v) = "grpc"
           THEN IF path.t # "str" THEN Raise("AttributeError")
                ELSE Some(With(With(p3, "network", "grpc"), "grpc-opts",
                               "grpc-service-name" :> StripSlash(path.v)))
      ELSE Some(p3)

\* The conversions before the presence check: int() of port and aid and
\* .lower() of tls are outside any try, so a ValueError or AttributeError
\* leaves the parser.
VmessFields(data, port, aid, tls) ==
  IF port.k # "some" THEN Raise("ValueError")
  ELSE IF aid.k # "some" THEN Raise("ValueError")
  ELSE IF tls.t # "str" THEN Raise("AttributeError")
  ELSE IF ~Truthy(JsonGet(data, "add")) \/ port.v = 0 \/ ~Truthy(JsonGet(data, "id"))
       THEN None
  ELSE VmessProxy(data, port.v, aid.v)

\* data.get on a value that is no object raises AttributeError.
VmessData(data) ==
  IF ~data.ok THEN None
  ELSE IF data.v.t # "obj" THEN Raise("AttributeError")
  ELSE VmessFields(data.v,
                   PyInt(PyStr(PyOr(JsonGet(data.v, "port"), JsonNum(0)))),
                   PyInt(PyStr(PyOr(JsonGet(data.v, "aid"), JsonNum(0)))),
                   PyOr(JsonGet(data.v, "tls"), JsonStr("")))

VmessText(text) == IF text.k # "some" THEN None ELSE VmessData(json_loads(text.v))

\* parse_vmess: vmess://Base64(JSON object).  Only the decoding is guarded by
\* try/except.
parse_vmess(url) == VmessText(b64decode_to_text(DropFirst(url, Len("vmess://"))))

\* The descriptor parse_trojan returns.
TrojanProxy(name, query, password, host, port) ==
  LET p0       == [name |-> name, type |-> "trojan", server |-> host, port |-> port,
                   password |-> percent_decode(password), udp |-> TRUE,
                   sni |-> TextOr(TextOr(QueryGet(query, "sni"), QueryGet(query, "peer")), host)]
      p1       == With(p0, "skip-cert-verify", FALSE)
      alpn     == QueryGet(query, "alpn")
      p2       == IF alpn # "" THEN With(p1, "alpn", SplitAll(alpn, ",")) ELSE p1
      type_q   == ToLower(TextOr(QueryGet(query, "type"), QueryGet(query, "transport")))
      path     == QueryGet(query, "path")
      host_hdr == TextOr(QueryGet(query, "host"), QueryGet(query, "sni"))
      ws_opts  == CASE path # "" /\ host_hdr # "" ->
                         With("path" :> path, "headers", "Host" :> host_hdr)
                    [] path # "" /\ host_hdr = "" -> "path" :> path
                    [] OTHER -> "headers" :> ("Host" :> host_hdr)
      service  == TextOr(QueryGet(query, "serviceName"), QueryGet(query, "service"))
  IN  IF type_q = "ws"
      THEN IF path # "" \/ host_hdr # ""
           THEN Some(With(With(p2, "network", "ws"), "ws-opts", ws_opts))
           ELSE Some(With(p2, "network", "ws"))
      ELSE IF type_q = "grpc"
      THEN IF service # ""
           THEN Some(With(With(p2, "network", "grpc"), "grpc-opts",
                          "grpc-service-name" :> service))
           ELSE Some(With(p2, "network", "grpc"))
      ELSE Some(p2)

\* port = int(re.sub(r"[^0-9]", "", port_str)); a ValueError is caught.
TrojanPort(url, password, host, port) ==
  IF port.k # "some" THEN None
  ELSE TrojanProxy(OrDefault(parse_name_from_fragment(url), "Trojan"), parse_query(url),
                   password, host, port.v)

\* host, port_str = server_part.rsplit(":", 1)
TrojanServer(url, password, hp) ==
  TrojanPort(url, password, hp[1], PyInt(KeepDigits(hp[2])))

\* password, server_part = body.split("@", 1)
TrojanParts(url, parts) ==
  IF ~Contains(parts[2], ":") THEN None
  ELSE TrojanServer(url, parts[1], RSplit1(parts[2], ":"))

TrojanBody(url, body) ==
  IF ~Contains(body, "@") THEN None ELSE TrojanParts(url, Split1(body, "@"))

\* parse_trojan: trojan://password@host:port?query#name.  Only the fragment
\* is cut off the body, so a query stays in the text the port is read from.
parse_trojan(url) == TrojanBody(url, Split1(DropFirst(url, Len("trojan://")), "#")[1])

\* dict((k, v) for k, _, v in [p.partition("=") for p in qs.split("&") if p]):
\* a sequence of <<key, value>>; the last value of a key is the one that counts.
RECURSIVE SsrPairs(_)
SsrPairs(fields) ==
  IF fields = <<>> THEN <<>>
  ELSE (IF Head(fields) = "" THEN <<>>
        ELSE <<<<Partition(Head(fields), "=")[1], Partition(Head(fields), "=")[3]>>>>)
         \o SsrPairs(Tail(fields))

\* key in pairs
HasKey(pairs, key) == \E i \in 1..Len(pairs) : pairs[i][1] = key

\* pairs.get(key, "")
PairGet(pairs, key) == PairAt(pairs, LastOf({i \in 1..Len(pairs) : pairs[i][1] = key}))

\* b64decode_to_text(pairs.get(key, "")) if key in pairs else ""
PairText(pairs, key) ==
  IF HasKey(pairs, key) THEN b64decode_to_text(PairGet(pairs, key)) ELSE Some("")

\* The test of line 330 with "and" for "or": one field of the two is enough.
SsrConvertibleEither(protocol, obfs) == protocol = "origin" \/ obfs = "plain"

\* if protocol != "origin" or obfs != "plain": return None
SsrConvertible(protocol, obfs) == protocol = "origin" /\ obfs = "plain"

\* The Clash Meta descriptor of type ssr.
NativeSsr(name, fields, password, obfsparam, protoparam, port_i) ==
  LET native0 == [name |-> name, type |-> "ssr", server |-> fields[1], port |-> port_i,
                  cipher |-> fields[4], password |-> password, protocol |-> fields[3],
                  obfs |-> fields[5], udp |-> TRUE]
      native1 == IF obfsparam # "" THEN With(native0, "obfs-param", obfsparam) ELSE native0
  IN  IF protoparam # "" THEN With(native1, "protocol-param", protoparam) ELSE native1

\* The two ways out of parse_ssr; int(port) takes the port as it stands, and
\* its ValueError is caught.
SsrResult(name, fields, password, obfsparam, protoparam, port_i, allow_native_ssr) ==
  IF allow_native_ssr
  THEN IF port_i.k # "some" THEN None
       ELSE Some(NativeSsr(name, fields, password, obfsparam, protoparam, port_i.v))
  ELSE IF ~SsrConvertible(fields[3], fields[5]) THEN None
  ELSE IF port_i.k # "some" THEN None
  ELSE Some([name |-> name, type |-> "ss", server |-> fields[1], port |-> port_i.v,
             cipher |-> fields[4], password |-> password])

\* The three decoded parameters; a decoder's error is caught.
SsrNamed(fields, password, remarks, obfsparam, protoparam, allow_native_ssr) ==
  IF remarks.k # "some" \/ obfsparam.k # "some" \/ protoparam.k # "some" THEN None
  ELSE SsrResult(TextOr(remarks.v, "SSR"), fields, password, obfsparam.v, protoparam.v,
                 PyInt(fields[2]), allow_native_ssr)

SsrParams(fields, password, pairs, allow_native_ssr) ==
  SsrNamed(fields, password, PairText(pairs, "remarks"), PairText(pairs, "obfsparam"),
           PairText(pairs, "protoparam"), allow_native_ssr)

SsrPassword(fields, password, params, allow_native_ssr) ==
  IF password.k # "some" THEN None
  ELSE SsrParams(fields, password.v,
                 IF StartsWith(params, "?")
                 THEN SsrPairs(SplitAll(DropFirst(params, 1), "&")) ELSE <<>>,
                 allow_native_ssr)

\* server, port, protocol, method, obfs, pwd_b64 = main.split(":", 5): fewer
\* than six fields raise ValueError, which is caught.
SsrFields(fields, params, allow_native_ssr) ==
  IF Len(fields) # 6 THEN None
  ELSE SsrPassword(fields, b64decode_to_text(fields[6]), params, allow_native_ssr)

\* main, _, params = decoded.partition("/")
SsrMain(cut, allow_native_ssr) == SsrFields(SplitN(cut[1], ":", 5), cut[3], allow_native_ssr)

SsrDecoded(decoded, allow_native_ssr) ==
  IF decoded.k # "some" THEN None ELSE SsrMain(Partition(decoded.v, "/"), allow_native_ssr)

\* parse_ssr: ssr://Base64(server:port:protocol:method:obfs:Base64(password)
\* /?params).  With allow_native_ssr the result is a descriptor of type ssr;
\* without it, a descriptor of type ss and only for protocol origin and obfs
\* plain.
parse_ssr(url, allow_native_ssr) ==
  SsrDecoded(b64decode_to_text(DropFirst(url, Len("ssr://"))), allow_native_ssr)

(***************************************************************************)
(* Entry splitter, aggregator and descriptor assembler                     *)
(***************************************************************************)

\* A piece without the "\r" that stood right before the "\n".
DropCr(piece) ==
  IF piece # "" /\ Ch(piece, Len(piece)) = "\r" THEN SubSeq(piece, 1, Len(piece) - 1)
  ELSE piece

\* re.split(r"\r?\n", text): the pieces between "\n", a "\r" right before
\* the "\n" belonging to the separator; i is the first place of "\n".
RECURSIVE SplitNewlines(_)
RECURSIVE SplitNewlinesAt(_, _)
SplitNewlinesAt(text, i) ==
  IF i = 0 THEN <<text>>
  ELSE <<DropCr(SubSeq(text, 1, i - 1))>> \o SplitNewlines(SubSeq(text, i + 1, Len(text)))

SplitNewlines(text) == SplitNewlinesAt(text, Find(text, "\n"))

\* The loop body of split_lines_keep_schemes for one stripped line.
SplitStrippedLine(line) ==
  IF line = "" THEN <<>>
  ELSE IF /\ Count(line, "://") > 1
          /\ ~StartsWith(line, "ssr://")
          /\ ~StartsWith(line, "vmess://")
       THEN SplitWhitespace(line)
       ELSE <<line>>

SplitOneLine(raw) == SplitStrippedLine(Strip(raw))

RECURSIVE SplitLines(_)
SplitLines(pieces) ==
  IF pieces = <<>> THEN <<>> ELSE SplitOneLine(Head(pieces)) \o SplitLines(Tail(pieces))

split_lines_keep_schemes(text) == SplitLines(SplitNewlines(text))

\* The length of the preview of a line that a warning carries (line[:80]).
PreviewLen == 80

Preview(line) == SubSeq(line, 1, IF Len(line) < PreviewLen THEN Len(line) ELSE PreviewLen)

\* The dispatch of parse_lines_to_proxies on the literal prefix.
ParseLine(line, allow_native_ssr) ==
  CASE StartsWith(line, "ss://")     -> parse_ss(line)
    [] StartsWith(line, "vmess://")  -> parse_vmess(line)
    [] StartsWith(line, "trojan://") -> parse_trojan(line)
    [] StartsWith(line, "ssr://")    -> parse_ssr(line, allow_native_ssr)
    [] OTHER                         -> None

\* continue: a blank line or a comment is passed over with no warning.
Skipped(line) == line = "" \/ StartsWith(line, "//") \/ StartsWith(line, "#")

\* The loop with "except Exception: pass": an exception of the parser adds no
\* warning.
LineResultSilent(line, p) ==
  CASE p.k = "some" -> [proxies |-> <<p.v>>, warnings |-> <<>>]
    [] p.k = "none" ->
         [proxies  |-> <<>>,
          warnings |-> <<[kind |-> "unrecognized", line |-> Preview(line)]>>]
    [] OTHER -> [proxies |-> <<>>, warnings |-> <<>>]

\* What the parser's result p adds to the two lists: a descriptor, or one
\* warning, "unrecognized" when the parser gave None and "failed" when an
\* exception left it.
LineResult(line, p) ==
  CASE p.k = "some" -> [proxies |-> <<p.v>>, warnings |-> <<>>]
    [] p.k = "none" ->
         [proxies  |-> <<>>,
          warnings |-> <<[kind |-> "unrecognized", line |-> Preview(line)]>>]
    [] OTHER ->
         [proxies  |-> <<>>,
          warnings |-> <<[kind |-> "failed", line |-> Preview(line), error |-> p.e]>>]

LineStripped(line, allow_native_ssr) ==
  IF Skipped(line) THEN [proxies |-> <<>>, warnings |-> <<>>]
  ELSE LineResult(line, ParseLine(line, allow_native_ssr))

\* One turn of the loop of parse_lines_to_proxies.
LineOutcome(raw, allow_native_ssr) == LineStripped(Strip(raw), allow_native_ssr)

RECURSIVE AggregateFrom(_, _, _, _, _)
RECURSIVE AggregateAdd(_, _, _, _, _, _)
AggregateFrom(lines, i, allow_native_ssr, proxies, warnings) ==
  IF i > Len(lines) THEN [proxies |-> proxies, warnings |-> warnings]
  ELSE AggregateAdd(lines, i, allow_native_ssr, proxies, warnings,
                    LineOutcome(lines[i], allow_native_ssr))

AggregateAdd(lines, i, allow_native_ssr, proxies, warnings, out) ==
  AggregateFrom(lines, i + 1, allow_native_ssr, proxies \o out.proxies,
                warnings \o out.warnings)

parse_lines_to_proxies(lines, allow_native_ssr) ==
  AggregateFrom(lines, 1, allow_native_ssr, <<>>, <<>>)

\* p.get("name", f"Proxy-{i}"), i counted from 0
ProxyName(p, i) == IF "name" \in DOMAIN p THEN p.name ELSE "Proxy-" \o NatText(i - 1)

\* ["DIRECT", "REJECT"] + proxy_names: the sentinels first.
GroupMembersSentinelsFirst(proxies) ==
  <<"DIRECT", "REJECT">> \o [i \in 1..Len(proxies) |-> ProxyName(proxies[i], i)]

\* proxy_names + ["DIRECT", "REJECT"]
GroupMembers(proxies) ==
  [i \in 1..Len(proxies) |-> ProxyName(proxies[i], i)] \o <<"DIRECT", "REJECT">>

\* build_minimal_clash_yaml: the fixed settings, the descriptors as given,
\* one select group "Proxy" and the catch-all rule.
build_minimal_clash_yaml(proxies, profile_name) ==
  [port |-> 7890, socksPort |-> 7891, allowLan |-> TRUE, mode |-> "Rule",
   logLevel |-> "info", externalController |-> "127.0.0.1:9090",
   proxies |-> proxies,
   proxyGroups |-> <<[name |-> "Proxy", type |-> "select",
                      proxies |-> GroupMembers(proxies)]>>,
   rules |-> <<"MATCH,Proxy">>]

\* return decoded if "://" in decoded else text; the decoder is called with
\* no try around it, so its error leaves the function.
DecodedOrText(text, decoded) ==
  IF decoded.k # "some" THEN decoded
  ELSE IF Contains(decoded.v, "://") THEN Some(decoded.v)
  ELSE Some(text)

\* fetch_subscription_text once the bytes are read: text that holds "://" is
\* taken as it is; other text is Base64-decoded, and the decoded text is kept
\* only if it holds "://".
DecodeSubscription(text) ==
  IF Contains(text, "://") THEN Some(text) ELSE DecodedOrText(text, b64decode_to_text(text))

(***************************************************************************)
(* Inputs.  Links whose payload is Base64 are written as their plain text  *)
(* and encoded here, so that the text a parser must recover is in view.    *)
(***************************************************************************)

\* s.encode("ascii")
TextBytes(s) == [i \in 1..Len(s) |-> Ord(Ch(s, i))]

\* base64.b64encode(bytes), padded, over the given 64-character alphabet:
\* each group of three bytes is four characters.
EncodeBytes(bytes, alphabet) ==
  LET A(v)     == Ch(alphabet, v + 1)
      B(i)     == IF i <= Len(bytes) THEN bytes[i] ELSE 0
      Group(g) ==
        LET i == 3 * g - 2
        IN  A(B(i) \div 4) \o A((B(i) % 4) * 16 + (B(i + 1) \div 16))
              \o (IF i + 1 > Len(bytes) THEN "=" ELSE A((B(i + 1) % 16) * 4 + (B(i + 2) \div 64)))
              \o (IF i + 2 > Len(bytes) THEN "=" ELSE A(B(i + 2) % 64))
  IN  ConcatRange(Group, 1, (Len(bytes) + 2) \div 3)

UrlsafeAlphabet == "ABCDEFGHIJKLMNOPQRSTUVWXYZabcdefghijklmnopqrstuvwxyz0123456789-_"

NotPad(c) == c # "="

\* Standard Base64 with padding.
Encode(s) == EncodeBytes(TextBytes(s), B64Alphabet)

\* URL-safe Base64 with the padding left off, as subscription providers write it.
EncodeUrlsafe(s) == FilterChars(EncodeBytes(TextBytes(s), UrlsafeAlphabet), NotPad)

\* A vmess link for a JSON text.
VmessUri(json) == "vmess://" \o Encode(json)

\* The SSR links of the model, by their fields.
SsrCases ==
  [server   : {"h1.example"},
   port     : {"443", "0"},
   protocol : {"origin", "auth_sha1_v4"},
   method   : {"aes-256-cfb"},
   obfs     : {"plain", "tls1.2_ticket_auth"},
   password : {"pw1"},
   remarks  : {"R1"}]

\* The plain text of an SSR link, and the link.
SsrText(f) ==
  f.server \o ":" \o f.port \o ":" \o f.protocol \o ":" \o f.method \o ":" \o f.obfs
    \o ":" \o EncodeUrlsafe(f.password) \o "/?remarks=" \o EncodeUrlsafe(f.remarks)

SsrUri(f) == "ssr://" \o EncodeUrlsafe(SsrText(f))

SsrTable == [f \in SsrCases |-> SsrUri(f)]

\* The end-to-end scenario: an ss link with Base64 userinfo and a literal
\* "@host:port", and a trojan link with a query, on two lines.
ScenarioText ==
  "ss://YWVzLTI1Ni1nY206cGFzcw==@example.com:443#MyNode\ntrojan://secret@host2:443?sni=host2#T1"

\* Lines that are combined into lists: two well-formed links with the same
\* name, a vmess link whose port makes int() raise, an SSR link that only
\* native mode accepts, an unknown scheme and a comment.
MixPool ==
  { "ss://aes-256-gcm:pass@example.com:8388#A",
    "trojan://secret@host.example:443#A",
    VmessUri("{\"add\":\"v.example\",\"port\":\"443x\",\"id\":\"u-1\"}"),
    SsrTable[[server |-> "h1.example", port |-> "443", protocol |-> "auth_sha1_v4",
              method |-> "aes-256-cfb", obfs |-> "plain", password |-> "pw1",
              remarks |-> "R1"]],
    "http://example.com/x",
    "# comment" }

\* Single links, one per case of a parser.
CaseLines ==
  { "ss://aes-256-gcm:pass@example.com:0#Zero",
    "ss://aes-256-gcm:pass@example.com:port#Bad",
    "ss://aes-256-gcm:pass@example.com:443?plugin=obfs2#Plugin",
    "ss://" \o Encode("aes-256-gcm:pass@example.com:8388") \o "#Encoded",
    "ss://aes-256-gcm:pass@example.com",
    "trojan://secret@host.example:0#Zero",
    "trojan://secret@host.example:port",
    "trojan://secret@host.example:443?type=ws&path=/ws&peer=sni.example#Ws",
    VmessUri("{\"ps\":\"V1\",\"add\":\"v.example\",\"port\":443,\"id\":\"u-1\",\"aid\":\"2\",\"net\":\"ws\",\"tls\":\"tls\"}"),
    VmessUri("{\"add\":\"v.example\",\"port\":0,\"id\":\"u-1\"}"),
    VmessUri("{\"add\":\"v.example\",\"id\":\"u-1\"}"),
    VmessUri("{\"add\":\"v.example\",\"port\":\" 4_4 \",\"id\":\"u-1\"}"),
    VmessUri("[1]"),
    VmessUri("{\"add\":"),
    "ssr://" \o EncodeUrlsafe("h1.example:443:origin:aes-256-cfb:plain"),
    "ssr://" \o EncodeUrlsafe("h1.example:44x:origin:aes-256-cfb:plain:" \o EncodeUrlsafe("pw1")),
    "ssr://hello",
    "  ss://aes-256-gcm:pass@example.com:8388#A  trojan://secret@host.example:443#B  ",
    "ss://aes-256-gcm:pass@example.com:8388#A\r\n\r\n// note\r\ntrojan://secret@host.example:443#B\r\n" }

\* The longest list of lines that is combined from MixPool.
MaxLines == 2

\* "\n".join(lines)
RECURSIVE JoinLines(_)
JoinLines(q) ==
  IF q = <<>> THEN ""
  ELSE IF Len(q) = 1 THEN q[1]
  ELSE q[1] \o "\n" \o JoinLines(Tail(q))

\* The texts the pipeline is applied to.
PipelineTexts ==
  {JoinLines(q) : q \in UNION {[1..n -> MixPool] : n \in 0..MaxLines}}
    \cup CaseLines \cup {SsrTable[f] : f \in SsrCases} \cup {ScenarioText}

\* The texts a subscription source returns to run_once: plain lists, a list
\* wrapped in Base64, text that is neither a list nor Base64, text that is
\* Base64 of no list, nothing, and lists with no usable entry.
SourceTexts ==
  { ScenarioText,
    "ss://aes-256-gcm:pass@example.com:8388#A",
    Encode("ss://aes-256-gcm:pass@example.com:8388#A\ntrojan://secret@host.example:443#B"),
    "hello",
    "aGVsbG8=",
    "",
    "http://example.com/x\n# note",
    SsrTable[[server |-> "h1.example", port |-> "443", protocol |-> "auth_sha1_v4",
              method |-> "aes-256-cfb", obfs |-> "plain", password |-> "pw1",
              remarks |-> "R1"]] }

\* --interval-minutes, in hundredths of a minute: negative, zero, a hundredth
\* of a minute, a minute.
Intervals == {0 - 100, 0, 1, 100}

(***************************************************************************)
(* State                                                                   *)
(***************************************************************************)

VARIABLES
  args,        \* the command line: [interval, clash_meta]
  pc,          \* where the process is
  raw,         \* the text the source returned to this run
  text,        \* the result of fetch_subscription_text
  lines,       \* the result of split_lines_keep_schemes
  proxies,     \* the descriptors of parse_lines_to_proxies
  warnings,    \* the warnings of parse_lines_to_proxies
  config,      \* the document of build_minimal_clash_yaml
  dest,        \* the content of the output file
  rc,          \* the return code of run_once, NoCode until it returns
  exitCode,    \* the exit code of the process, NoCode while it runs
  sleepSecs,   \* the argument of the time.sleep the process is in
  interrupted, \* KeyboardInterrupt was delivered
  stages,      \* history: the stages of this run that completed
  failed,      \* history: the stage of this run that failed, "" if none
  wrote,       \* history: this run called write_yaml_to_file
  destBefore,  \* history: the output file when this run began
  lastGood     \* history: the document of the last run that returned 0

vars == <<args, pc, raw, text, lines, proxies, warnings, config, dest, rc, exitCode,
          sleepSecs, interrupted, stages, failed, wrote, destBefore, lastGood>>

NoCode == 0 - 1

NoConfig == [proxies |-> <<>>, proxyGroups |-> <<>>, rules |-> <<>>]

\* The output file: as it was before the program ran, a complete document,
\* or the beginning of a document whose writing broke off.
InitialFile == [kind |-> "initial", doc |-> NoConfig]

CompleteFile(doc) == [kind |-> "complete", doc |-> doc]

TruncatedFile(doc) == [kind |-> "truncated", doc |-> doc]

\* The locals of run_once at its entry.
RunLocals ==
  /\ raw = ""
  /\ text = ""
  /\ lines = <<>>
  /\ proxies = <<>>
  /\ warnings = <<>>
  /\ config = NoConfig
  /\ rc = NoCode
  /\ stages = <<>>
  /\ failed = ""
  /\ wrote = FALSE

(***************************************************************************)
(* The pipeline as pure functions: split, aggregate, assemble, applied to  *)
(* each text of PipelineTexts in both SSR modes.                           *)
(***************************************************************************)

PipelineInit ==
  /\ args \in [interval : {0}, clash_meta : BOOLEAN]
  /\ pc = "split"
  /\ text \in PipelineTexts
  /\ raw = text
  /\ lines = <<>>
  /\ proxies = <<>>
  /\ warnings = <<>>
  /\ config = NoConfig
  /\ rc = NoCode
  /\ stages = <<>>
  /\ failed = ""
  /\ wrote = FALSE
  /\ dest = InitialFile
  /\ destBefore = InitialFile
  /\ lastGood = NoConfig
  /\ exitCode = NoCode
  /\ sleepSecs = 0
  /\ interrupted = FALSE

Split ==
  /\ pc = "split"
  /\ lines' = split_lines_keep_schemes(text)
  /\ pc' = "aggregate"
  /\ UNCHANGED <<args, raw, text, proxies, warnings, config, dest, rc, exitCode, sleepSecs,
                 interrupted, stages, failed, wrote, destBefore, lastGood>>

\* proxies, warnings = parse_lines_to_proxies(...)
Parsed(out) ==
  /\ proxies' = out.proxies
  /\ warnings' = out.warnings

Aggregate ==
  /\ pc = "aggregate"
  /\ Parsed(parse_lines_to_proxies(lines, args.clash_meta))
  /\ pc' = "assemble_pure"
  /\ UNCHANGED <<args, raw, text, lines, config, dest, rc, exitCode, sleepSecs,
                 interrupted, stages, failed, wrote, destBefore, lastGood>>

Assemble ==
  /\ pc = "assemble_pure"
  /\ config' = build_minimal_clash_yaml(proxies, "MySubscription")
  /\ pc' = "assembled"
  /\ UNCHANGED <<args, raw, text, lines, proxies, warnings, dest, rc, exitCode, sleepSecs,
                 interrupted, stages, failed, wrote, destBefore, lastGood>>

PipelineNext == Split \/ Aggregate \/ Assemble

PipelineSpec == PipelineInit /\ [][PipelineNext]_vars

(***************************************************************************)
(* run_once and main                                                       *)
(***************************************************************************)

\* main, line 463: a missing, zero or negative interval means a single run.
Polling == args.interval > 0

\* max(1, int(interval * 60)), the interval in hundredths of a minute
SleepSeconds(interval) ==
  IF (interval * 60) \div 100 < 1 THEN 1 ELSE (interval * 60) \div 100

\* run_once without the test of line 419.
NoSurvivorsUntested(ps) == FALSE

\* "if not proxies"
NoSurvivors(ps) == Len(ps) = 0

\* write_yaml_to_file(config, output) on a file that holds old.  env is what
\* the environment does to the write: "ok"; "unopened": the yaml module is
\* missing or open() raises, and the file is untouched; "broken": open(path,
\* "w") has emptied the file and safe_dump raises while writing (a full disk).
write_yaml_to_file(doc, old, env) ==
  CASE env = "ok"       -> [ok |-> TRUE,  file |-> CompleteFile(doc)]
    [] env = "unopened" -> [ok |-> FALSE, file |-> old]
    [] OTHER            -> [ok |-> FALSE, file |-> TruncatedFile(doc)]

WriteEnvs == {"ok", "unopened", "broken"}

Init ==
  /\ args \in [interval : Intervals, clash_meta : BOOLEAN]
  /\ pc = "fetch"
  /\ RunLocals
  /\ dest = InitialFile
  /\ destBefore = InitialFile
  /\ lastGood = NoConfig
  /\ exitCode = NoCode
  /\ sleepSecs = 0
  /\ interrupted = FALSE

\* run_once, lines 410-414: the source cannot be read (return 2), or it
\* returns some text and fetch_subscription_text decodes it; an exception of
\* the decoder is caught by the same except clause (return 2).
Fetched(got) ==
  IF got.k = "some"
  THEN /\ text' = got.v
       /\ stages' = Append(stages, "fetch")
       /\ pc' = "parse"
       /\ UNCHANGED <<rc, failed>>
  ELSE /\ failed' = "decode"
       /\ rc' = 2
       /\ pc' = "returned"
       /\ UNCHANGED <<text, stages>>

RunFetch ==
  /\ pc = "fetch"
  /\ \/ /\ failed' = "retrieve"
        /\ rc' = 2
        /\ pc' = "returned"
        /\ UNCHANGED <<raw, text, stages>>
     \/ \E t \in SourceTexts :
          /\ raw' = t
          /\ Fetched(DecodeSubscription(t))
  /\ UNCHANGED <<args, lines, proxies, warnings, config, dest, exitCode, sleepSecs,
                 interrupted, wrote, destBefore, lastGood>>

\* run_once, lines 416-424: split, parse, and return 3 when nothing survived.
RunParse ==
  /\ pc = "parse"
  /\ lines' = split_lines_keep_schemes(text)
  /\ Parsed(parse_lines_to_proxies(lines', args.clash_meta))
  /\ IF NoSurvivors(proxies')
     THEN /\ failed' = "parse"
          /\ rc' = 3
          /\ pc' = "returned"
          /\ UNCHANGED stages
     ELSE /\ stages' = Append(stages, "parse")
          /\ pc' = "assemble"
          /\ UNCHANGED <<rc, failed>>
  /\ UNCHANGED <<args, raw, text, config, dest, exitCode, sleepSecs, interrupted, wrote,
                 destBefore, lastGood>>

\* run_once, line 426
RunAssemble ==
  /\ pc = "assemble"
  /\ config' = build_minimal_clash_yaml(proxies, "MySubscription")
  /\ stages' = Append(stages, "assemble")
  /\ pc' = "write"
  /\ UNCHANGED <<args, raw, text, lines, proxies, warnings, dest, rc, exitCode, sleepSecs,
                 interrupted, failed, wrote, destBefore, lastGood>>

\* run_once, lines 428-432: the write, and return 4 when it raises.
RunWrite ==
  /\ pc = "write"
  /\ wrote' = TRUE
  /\ \E env \in WriteEnvs :
       /\ dest' = write_yaml_to_file(config, dest, env).file
       /\ IF write_yaml_to_file(config, dest, env).ok
          THEN /\ stages' = Append(stages, "write")
               /\ pc' = "report"
               /\ UNCHANGED <<rc, failed>>
          ELSE /\ failed' = "write"
               /\ rc' = 4
               /\ pc' = "returned"
               /\ UNCHANGED stages
  /\ UNCHANGED <<args, raw, text, lines, proxies, warnings, config, exitCode, sleepSecs,
                 interrupted, destBefore, lastGood>>

\* run_once, lines 434-439: the summary is printed and 0 returned.
RunReport ==
  /\ pc = "report"
  /\ rc' = 0
  /\ lastGood' = config
  /\ pc' = "returned"
  /\ UNCHANGED <<args, raw, text, lines, proxies, warnings, config, dest, exitCode,
                 sleepSecs, interrupted, stages, failed, wrote, destBefore>>

\* A polling loop that gives up on a failed run: "if code: sys.exit(code)".
MainAfterRunStopsOnFailure ==
  /\ pc = "returned"
  /\ IF args.interval > 0 /\ rc = 0
     THEN /\ pc' = "sleep"
          /\ sleepSecs' = 1
          /\ UNCHANGED exitCode
     ELSE /\ pc' = "exit"
          /\ exitCode' = rc
          /\ UNCHANGED sleepSecs
  /\ UNCHANGED <<args, raw, text, lines, proxies, warnings, config, dest, rc, interrupted,
                 stages, failed, wrote, destBefore, lastGood>>

\* main, lines 464-465 and 470-472: a single run exits with the code; the
\* polling loop drops the code and sleeps.
MainAfterRun ==
  /\ pc = "returned"
  /\ IF Polling
     THEN /\ pc' = "sleep"
          /\ sleepSecs' = SleepSeconds(args.interval)
          /\ UNCHANGED exitCode
     ELSE /\ pc' = "exit"
          /\ exitCode' = rc
          /\ UNCHANGED sleepSecs
  /\ UNCHANGED <<args, raw, text, lines, proxies, warnings, config, dest, rc, interrupted,
                 stages, failed, wrote, destBefore, lastGood>>

\* main, lines 469-470: time.sleep returns and run_once is entered again.
Wake ==
  /\ pc = "sleep"
  /\ pc' = "fetch"
  /\ sleepSecs' = 0
  /\ raw' = ""
  /\ text' = ""
  /\ lines' = <<>>
  /\ proxies' = <<>>
  /\ warnings' = <<>>
  /\ config' = NoConfig
  /\ rc' = NoCode
  /\ stages' = <<>>
  /\ failed' = ""
  /\ wrote' = FALSE
  /\ destBefore' = dest
  /\ UNCHANGED <<args, dest, exitCode, interrupted, lastGood>>

\* main, lines 473-475: KeyboardInterrupt anywhere in the polling loop ends
\* the process with code 0.  It is no Exception, so the except clauses of
\* run_once let it pass.  Delivered while safe_dump is writing, it leaves the
\* beginning of the document in the file.
Interrupt ==
  /\ Polling
  /\ pc \in {"fetch", "parse", "assemble", "write", "report", "returned", "sleep"}
  /\ \/ UNCHANGED dest
     \/ /\ pc = "write"
        /\ dest' = TruncatedFile(config)
  /\ interrupted' = TRUE
  /\ pc' = "exit"
  /\ exitCode' = 0
  /\ UNCHANGED <<args, raw, text, lines, proxies, warnings, config, rc, sleepSecs, stages,
                 failed, wrote, destBefore, lastGood>>

\* The steps of the program itself.
Step == RunFetch \/ RunParse \/ RunAssemble \/ RunWrite \/ RunReport \/ MainAfterRun \/ Wake

Next == Step \/ Interrupt

Spec == Init /\ [][Next]_vars

\* The process keeps executing the loop of main: when run_once has returned
\* the next statement is executed, and time.sleep returns after its finite
\* argument.
FairSpec == Spec /\ WF_vars(MainAfterRun) /\ WF_vars(Wake)

(***************************************************************************)
(* Properties of the pipeline (PipelineSpec)                               *)
(***************************************************************************)

\* The aggregator has run.
Aggregated == pc \in {"assemble_pure", "assembled"}

\* An entry the aggregator hands to a parser: after trimming it is neither
\* blank nor a comment.
C1_Candidate(l) ==
  ~(Strip(l) = "" \/ StartsWith(Strip(l), "#") \/ StartsWith(Strip(l), "//"))

\* The entry is well-formed: its scheme parser yields a descriptor.
C1_WellFormed(l) == ParseLine(Strip(l), args.clash_meta).k = "some"

C1_IllFormed(l) == ~C1_WellFormed(l)

\* The result for the entries e: one descriptor for each well-formed entry,
\* in their order, and one warning for each other entry, in their order.
C1_ResultFor(e) ==
  /\ Len(proxies) = Len(SelectSeq(e, C1_WellFormed))
  /\ Len(warnings) = Len(e) - Len(SelectSeq(e, C1_WellFormed))
  /\ \A i \in 1..Len(proxies) :
       proxies[i] = ParseLine(Strip(SelectSeq(e, C1_WellFormed)[i]), args.clash_meta).v
  /\ \A j \in 1..Len(warnings) :
       warnings[j].line = Preview(Strip(SelectSeq(e, C1_IllFormed)[j]))

\* C1 as stated: of the N entries passed to parse_lines_to_proxies, K of them
\* well-formed, the result has K descriptors in the order of the well-formed
\* entries and N-K warnings; no entry is dropped without a warning.
C1_Original == Aggregated => C1_ResultFor(lines)

\* C1, amended: entries that after trimming are blank or begin with "#" or
\* "//" are passed over with no warning; of the N remaining entries, K of
\* them well-formed, the result has exactly K descriptors, in the order of the
\* well-formed entries, and exactly N-K warnings, in the order of the others,
\* so a failure of one entry stops no later entry.
C1_BestEffort == Aggregated => C1_ResultFor(SelectSeq(lines, C1_Candidate))

\* The first entry made its parser raise, and the entry after it is in the
\* result.
C1_FailureThenDescriptor ==
  /\ Aggregated
  /\ Len(lines) = 2
  /\ StartsWith(lines[1], "vmess://")
  /\ Len(warnings) = 1
  /\ warnings[1].kind = "failed"
  /\ Len(proxies) = 1
  /\ proxies[1].type = "trojan"

\* C5: the document of build_minimal_clash_yaml has exactly one proxy group,
\* named "Proxy", whose members are the names of the descriptors in list
\* order, duplicates kept, then "DIRECT" and "REJECT"; its proxy list is the
\* input list, and its rules are the one catch-all rule to that group.
C5_OneGroup ==
  pc = "assembled" =>
    /\ Len(config.proxyGroups) = 1
    /\ config.proxyGroups[1].name = "Proxy"
    /\ config.proxyGroups[1].proxies
         = [i \in 1..Len(proxies) |-> proxies[i].name] \o <<"DIRECT", "REJECT">>
    /\ config.proxies = proxies
    /\ config.rules = <<"MATCH,Proxy">>

\* A document for two descriptors with the same name.
C5_DuplicateNames ==
  /\ pc = "assembled"
  /\ Len(proxies) = 2
  /\ proxies[1].name = proxies[2].name
  /\ proxies[1] # proxies[2]
  /\ Len(config.proxyGroups[1].proxies) = 4

\* int() of the port texts of SsrCases.
C6_Port == ("443" :> 443) @@ ("0" :> 0)

\* The link of f was the whole input and has been parsed.
C6_Parsed(f) == Aggregated /\ StartsWith(text, "ssr://") /\ text = SsrUri(f)

\* C6: for a structurally valid SSR link, compatibility mode yields a
\* descriptor exactly when protocol is "origin" and obfs is "plain", of type
\* "ss" with the decoded method, password, host and port; for every other
\* combination compatibility mode yields no descriptor and native mode yields
\* a descriptor of type "ssr" that keeps protocol and obfs.
C6_SsrModes ==
  \A f \in SsrCases :
    C6_Parsed(f) =>
      IF f.protocol = "origin" /\ f.obfs = "plain"
      THEN ~args.clash_meta =>
             /\ Len(proxies) = 1
             /\ proxies[1].type = "ss"
             /\ proxies[1].cipher = f.method
             /\ proxies[1].password = f.password
             /\ proxies[1].server = f.server
             /\ proxies[1].port = C6_Port[f.port]
      ELSE IF ~args.clash_meta
           THEN proxies = <<>> /\ Len(warnings) = 1
           ELSE /\ Len(proxies) = 1
                /\ proxies[1].type = "ssr"
                /\ proxies[1].protocol = f.protocol
                /\ proxies[1].obfs = f.obfs

\* Compatibility mode has refused a link with a protocol other than "origin"
\* and a plain obfs.
C6_Refused ==
  \E f \in SsrCases :
    /\ C6_Parsed(f)
    /\ ~args.clash_meta
    /\ f.protocol = "auth_sha1_v4"
    /\ f.obfs = "plain"
    /\ proxies = <<>>

\* C7: the ss link with Base64 userinfo and a literal "@example.com:443#MyNode"
\* and the trojan link "trojan://secret@host2:443?sni=host2#T1" on two lines
\* give two descriptors, MyNode (ss, example.com, 443, the decoded method and
\* password) and T1 (trojan, host2, 443, sni host2), no warning, and the group
\* members MyNode, T1, DIRECT, REJECT.
C7_Scenario ==
  (text = ScenarioText /\ pc = "assembled") =>
    /\ Len(proxies) = 2
    /\ warnings = <<>>
    /\ proxies[1].name = "MyNode"
    /\ proxies[1].type = "ss"
    /\ proxies[1].server = "example.com"
    /\ proxies[1].port = 443
    /\ proxies[1].cipher = "aes-256-gcm"
    /\ proxies[1].password = "pass"
    /\ proxies[2].name = "T1"
    /\ proxies[2].type = "trojan"
    /\ proxies[2].server = "host2"
    /\ proxies[2].port = 443
    /\ proxies[2].sni = "host2"
    /\ config.proxyGroups[1].proxies = <<"MyNode", "T1", "DIRECT", "REJECT">>

\* C9: an entry whose port does not convert, is missing or is zero gives None
\* from its parser: no parser lets an exception leave, and no descriptor with
\* port 0 is in the aggregator's list.
C9_PortsChecked ==
  Aggregated =>
    /\ \A i \in 1..Len(proxies) : proxies[i].port # 0
    /\ \A j \in 1..Len(warnings) : warnings[j].kind # "failed"

(***************************************************************************)
(* Properties of run_once and main (Spec, FairSpec)                        *)
(***************************************************************************)

\* run_once has returned and the process has not begun another run.
Returned == pc \in {"returned", "sleep", "exit"} /\ rc # NoCode

\* This run has been through parse_lines_to_proxies.
ParsedThisRun == failed = "parse" \/ Len(stages) >= 2

\* C2: when no descriptor survives parsing, the run returns 3, and
\* write_yaml_to_file is never called, so the output file is as it was when
\* the run began.
C2_TotalFailure ==
  (ParsedThisRun /\ proxies = <<>>) =>
    /\ Returned
    /\ rc = 3
    /\ ~wrote
    /\ dest = destBefore

\* A run with no surviving descriptor has returned 3, and the document an
\* earlier run wrote is still in the output file.
C2_EarlierDocumentKept ==
  /\ pc = "returned"
  /\ rc = 3
  /\ proxies = <<>>
  /\ ~wrote
  /\ dest.kind = "complete"
  /\ dest = CompleteFile(lastGood)

\* C3: a run ends with one of the codes 2, 3, 4, 0, and the code names the
\* stage that failed: 2 only when fetching the source failed, 3 only when no
\* descriptor survived, 4 only when the write failed, and 0 only after fetch,
\* parse with at least one descriptor, assemble and write completed in order.
C3_FourOutcomes ==
  pc = "returned" =>
    /\ rc \in {0, 2, 3, 4}
    /\ rc = 2 => failed = "retrieve"
    /\ rc = 3 => failed = "parse" /\ proxies = <<>>
    /\ rc = 4 => failed = "write"
    /\ rc = 0 => /\ failed = ""
                 /\ stages = <<"fetch", "parse", "assemble", "write">>
                 /\ Len(proxies) >= 1

\* C8: text that was retrieved, holds no "://" and is no decodable Base64 does
\* not make the decoder's error leave fetch_subscription_text: the run does
\* not return the code of a retrieval failure.
C8_DecodeErrorContained ==
  (pc = "returned" /\ failed # "retrieve" /\ ~Contains(raw, "://")) => rc # 2

\* C10: a run that returned 2, 3 or 4 left the output file as it was when the
\* run began, and whenever a run has finished the file holds its initial
\* content or the complete document of the last run that returned 0.
C10_DestinationKept ==
  pc \in {"returned", "sleep"} =>
    /\ rc # 0 => dest = destBefore
    /\ dest = InitialFile \/ dest = CompleteFile(lastGood)

\* In polling mode the process ends only by the interrupt, with code 0.
C4_ExitOnlyByInterrupt == (Polling /\ pc = "exit") => (interrupted /\ exitCode = 0)

\* In polling mode a run that returned is followed by the sleep or by the
\* interrupt, whatever its code, and the sleep by the next run or the
\* interrupt.
C4_LoopStep ==
  (Polling /\ pc \in {"returned", "sleep"}) =>
    \/ pc' = pc
    \/ pc = "returned" /\ pc' = "sleep"
    \/ pc = "sleep" /\ pc' = "fetch" /\ rc' = NoCode
    \/ pc' = "exit" /\ interrupted'

====
